---- MODULE Spec2Model ----
(***************************************************************************)
(* Emotional-authenticity analysis (facial emotion vs. speech emotion):    *)
(* the scorer AuthenticityAnalyzer.analyze, the two observation sources    *)
(* VideoProcessor.process_frame and AudioProcessor.process_audio, and the  *)
(* session main() of main.py / analyze_video.py with its audio thread.     *)
(*                                                                         *)
(* Python floats are IEEE-754 binary64.  A non-negative double x is        *)
(* modelled exactly, as the natural number x * 2^70 written in base 2^14,  *)
(* least significant digit first, without leading zero digits (so equal    *)
(* doubles are equal sequences, and 0.0 is << >>).  Every double between   *)
(* 2^-17 and 2^14 is such a number.  Each float operation computes the     *)
(* exact result and rounds it to 53 significant bits, ties to even, as the *)
(* hardware does.                                                          *)
(***************************************************************************)
EXTENDS Integers, Sequences, FiniteSets, TLC

(***************************************************************************)
(* Natural numbers of any size (TLC's integers have 32 bits).              *)
(***************************************************************************)
Limb == 2^14
LimbBits == 14 + 0
FracLimbs == 5 + 0
FracBits == FracLimbs * LimbBits

MaxOf(a, b) == IF a >= b THEN a ELSE b

At(a, i) == IF i >= 1 /\ i <= Len(a) THEN a[i] ELSE 0

RECURSIVE BigTrim(_)
BigTrim(a) ==
    IF a # << >> /\ a[Len(a)] = 0 THEN BigTrim(SubSeq(a, 1, Len(a) - 1)) ELSE a

RECURSIVE Carry(_, _)
Carry(a, c) ==
    IF a = << >>
    THEN IF c = 0 THEN << >> ELSE <<c % Limb>> \o Carry(<< >>, c \div Limb)
    ELSE <<(a[1] + c) % Limb>> \o Carry(Tail(a), (a[1] + c) \div Limb)

BigNorm(a) == BigTrim(Carry(a, 0))

BigAdd(a, b) == BigNorm([i \in 1..MaxOf(Len(a), Len(b)) |-> At(a, i) + At(b, i)])

RECURSIVE Borrow(_, _, _)
Borrow(a, b, c) ==
    \* a - b - c for a >= b + c, digit by digit
    IF a = << >> THEN << >>
    ELSE LET d == a[1] - At(b, 1) - c
         IN  <<d % Limb>> \o Borrow(Tail(a), IF b = << >> THEN b ELSE Tail(b),
                                    IF d < 0 THEN 1 ELSE 0)

BigSub(a, b) == BigTrim(Borrow(a, b, 0))

RECURSIVE Conv(_, _, _, _)
Conv(a, b, k, i) ==
    \* the sum of a[j] * b[k + 1 - j] over j in 1..i
    IF i = 0 THEN 0 ELSE At(a, i) * At(b, k + 1 - i) + Conv(a, b, k, i - 1)

BigMul(a, b) ==
    IF a = << >> \/ b = << >> THEN << >>
    ELSE BigNorm([k \in 1..(Len(a) + Len(b) - 1) |-> Conv(a, b, k, Len(a))])

BigScale(a, n) == BigNorm([i \in 1..Len(a) |-> a[i] * n])

RECURSIVE ShortDiv(_, _, _)
ShortDiv(a, n, r) ==
    \* <<quotient of (r * Limb^Len(a) + a) by n, remainder>>, for r < n
    IF a = << >> THEN <<(<< >>), r>>
    ELSE LET cur  == r * Limb + a[Len(a)]
             rest == ShortDiv(SubSeq(a, 1, Len(a) - 1), n, cur % n)
         IN  <<rest[1] \o <<cur \div n>>, rest[2]>>

BigLess(a, b) ==
    \/ Len(a) < Len(b)
    \/ /\ Len(a) = Len(b)
       /\ \E i \in 1..Len(a) :
             /\ a[i] < b[i]
             /\ \A j \in (i + 1)..Len(a) : a[j] = b[j]

Bit(a, i) == (At(a, (i \div LimbBits) + 1) \div 2^(i % LimbBits)) % 2

MsbPos(a) ==
    \* the position of the highest 1 bit of a # << >>
    LimbBits * (Len(a) - 1)
        + (CHOOSE k \in 0..(LimbBits - 1) : 2^k <= a[Len(a)] /\ a[Len(a)] < 2^(k + 1))

Pow2(q) ==
    [i \in 1..((q \div LimbBits) + 1) |->
        IF i = (q \div LimbBits) + 1 THEN 2^(q % LimbBits) ELSE 0]

RoundTo(a, q, sticky) ==
    \* a (plus a nonzero part below bit 0 when sticky) rounded to a multiple
    \* of 2^q, q >= 1, ties to even
    LET top   == (q \div LimbBits) + 1
        low   == sticky \/ \E i \in 0..(q - 2) : Bit(a, i) = 1
        trunc == [i \in 1..Len(a) |->
                    IF i < top THEN 0
                    ELSE IF i = top
                         THEN (a[i] \div 2^(q % LimbBits)) * 2^(q % LimbBits)
                         ELSE a[i]]
        up    == Bit(a, q - 1) = 1 /\ (low \/ Bit(a, q) = 1)
    IN  IF up THEN BigAdd(trunc, Pow2(q)) ELSE BigTrim(trunc)

RoundDouble(a, sticky) ==
    \* rounding to 53 significant bits
    IF a = << >> THEN a
    ELSE LET q == MsbPos(a) - 52 IN IF q <= 0 THEN a ELSE RoundTo(a, q, sticky)

(***************************************************************************)
(* binary64 arithmetic on the fixed-point representation.                  *)
(***************************************************************************)
Zeros == [i \in 1..FracLimbs |-> 0]

DropFrac(a) == IF Len(a) <= FracLimbs THEN << >> ELSE SubSeq(a, FracLimbs + 1, Len(a))

FromInt(k) == IF k = 0 THEN << >> ELSE Zeros \o BigNorm(<<k>>)

FMul(x, y) == DropFrac(RoundDouble(BigMul(x, y), FALSE))

FAdd(x, y) == RoundDouble(BigAdd(x, y), FALSE)

FSub(x, y) == RoundDouble(BigSub(x, y), FALSE)

FDivInt(x, n) ==
    \* x / float(n) for an integer n >= 1
    LET qr == ShortDiv(Zeros \o x, n, 0)
    IN  DropFrac(RoundDouble(BigTrim(qr[1]), qr[2] # 0))

FMulInt(x, n) == RoundDouble(BigScale(x, n), FALSE)

FLess(x, y) == BigLess(x, y)

FLeq(x, y) == ~BigLess(y, x)

RECURSIVE ToInt(_)
ToInt(a) == IF a = << >> THEN 0 ELSE a[1] + Limb * ToInt(Tail(a))

Rint(x) ==
    \* numpy.rint(x) as an integer: the nearest integer, ties to even
    IF x = << >> THEN 0 ELSE ToInt(DropFrac(RoundTo(x, FracBits, FALSE)))

\* the double that the decimal literal n/d denotes (the nearest double)
Lit(n, d) == FDivInt(FromInt(n), d)

\* f itself, with f[x] computed once for every x of its domain
Table(f) == f @@ f

\* the float literals of the program
Lit_0_0 == FromInt(0)
Lit_1_0 == FromInt(1)
Lit_0_1 == Lit(1, 10)
Lit_0_5 == Lit(5, 10)
Lit_0_6 == Lit(6, 10)
Lit_0_7 == Lit(7, 10)
Lit_0_8 == Lit(8, 10)

(***************************************************************************)
(* config.py                                                               *)
(***************************************************************************)
AUTHENTICITY_THRESHOLD == Lit_0_5

EMOTION_CONGRUENCE ==
    [happy    |-> {"happy"},
     sad      |-> {"sad", "calm", "neutral"},
     angry    |-> {"angry"},
     fear     |-> {"fearful", "surprised"},
     disgust  |-> {"disgust"},
     surprise |-> {"surprised", "fearful"},
     neutral  |-> {"neutral", "calm", "sad"}]

(***************************************************************************)
(* Bounds of the model.                                                    *)
(***************************************************************************)
\* analyze is called with every pair of histories of at most MaxShort entries
MaxShort == 2
\* and with every pair of histories of at most MaxRun entries that are one
\* or two runs of a label
MaxRun == 6

\* longer than the longest history the model builds, and long enough for a
\* history of 10 entries
HistoryBound == MaxRun + 4

\* a session: the frames of the longest video
MaxFrames == 2
\* the extracted audio of the longest video, in chunks of the audio thread
\* (audio_samples_per_frame samples each)
MaxAudio == 2
\* int(samplerate * ser_process_interval), in chunks of the audio thread
IntervalChunks == 2
\* the capacity of the two history buffers of a session, for
\* RECENT_EMOTION_HISTORY_LENGTH of config.py:19, which is 20; less than
\* MaxFrames, so that a session fills the buffers and goes on
HistoryLength == 1

(***************************************************************************)
(* authenticity_analyzer.py                                                *)
(***************************************************************************)
AuthenticityAnalyzer(emotion_congruence_map, authenticity_threshold) ==
    [emotion_congruence_map |-> emotion_congruence_map,
     authenticity_threshold |-> authenticity_threshold]

\* sum(1 for e in history if e in labels)
CountIn(history, labels) == Cardinality({i \in 1..Len(history) : history[i] \in labels})

\* [e for e in history if e not in labels]
Without(history, labels) == SelectSeq(history, LAMBDA e : e \notin labels)

\* count / len(history) for 0 <= count <= len(history) <= HistoryBound, the
\* quotients computed once
Quotient ==
    Table([count \in 0..HistoryBound |->
        Table([n \in 1..HistoryBound |-> FDivInt(FromInt(count), n)])])

\* the comparison with >= for >
ShareAbove_AtLeast(count, history, limit) ==
    Len(history) > 0 /\ FLeq(limit, Quotient[count][Len(history)])

\* len(history) > 0 and count / len(history) > limit, a comparison of two doubles
ShareAbove(count, history, limit) ==
    Len(history) > 0 /\ FLess(limit, Quotient[count][Len(history)])

\* the label with the highest count, the one inserted last among those
most_common_Last(hist) ==
    LET n == Table([i \in 1..Len(hist) |-> CountIn(hist, {hist[i]})])
        i == CHOOSE i \in 1..Len(hist) :
                /\ \A j \in 1..Len(hist) : n[j] <= n[i]
                /\ \A j \in (i + 1)..Len(hist) : n[j] < n[i] \/ hist[j] = hist[i]
                /\ \A j \in 1..(i - 1) : hist[j] # hist[i]
    IN  hist[i]

\* Counter(hist).most_common(1)[0][0]: the label with the highest count, the
\* one inserted first among those (a Counter keeps insertion order and
\* most_common(1) is max(), which keeps the first maximum)
most_common(hist) ==
    LET n == Table([i \in 1..Len(hist) |-> CountIn(hist, {hist[i]})])
        i == CHOOSE i \in 1..Len(hist) :
                /\ \A j \in 1..Len(hist) : n[j] <= n[i]
                /\ \A j \in 1..(i - 1) : n[j] < n[i]
    IN  hist[i]

error_face_count(facial_emotion_history) ==
    CountIn(facial_emotion_history, {"Error", "No Face", "Initializing..."})

error_speech_count(speech_emotion_history) ==
    CountIn(speech_emotion_history, {"Error", "No Speech Input", "Initializing..."})

\* the x0.1 penalty for the face with Initializing... left out of the count
FaceDegenerate_ErrorsOnly(facial_emotion, facial_emotion_history) ==
    /\ facial_emotion = "Error" \/ facial_emotion = "No Face"
    /\ ShareAbove(CountIn(facial_emotion_history, {"Error", "No Face"}),
                  facial_emotion_history, Lit_0_8)

\* lines 25-30: the condition of the x0.1 penalty for the face
FaceDegenerate(facial_emotion, facial_emotion_history) ==
    /\ facial_emotion = "Error" \/ facial_emotion = "No Face"
    /\ ShareAbove(error_face_count(facial_emotion_history), facial_emotion_history, Lit_0_8)

\* lines 33-38: the condition of the x0.1 penalty for the speech
SpeechDegenerate(speech_emotion, speech_emotion_history) ==
    /\ speech_emotion = "Error" \/ speech_emotion = "No Speech Input"
    /\ ShareAbove(error_speech_count(speech_emotion_history), speech_emotion_history, Lit_0_8)

\* line 43
valid_face_hist(facial_emotion_history) ==
    Without(facial_emotion_history, {"No Face", "Error", "Initializing..."})

\* line 44
valid_speech_hist(speech_emotion_history) ==
    Without(speech_emotion_history, {"No Speech Input", "Error", "Initializing..."})

\* lines 47 and 48, for either modality
dominant_in_hist(valid_hist, emotion) ==
    IF valid_hist # << >> THEN most_common(valid_hist) ELSE emotion

\* the dominant label taken as soon as the history has one valid entry
effective_facial_emotion_AnyHistory(facial_emotion, valid_face, dominant_face) ==
    IF /\ facial_emotion \notin {"No Face", "Error", "Initializing..."}
       /\ Len(valid_face) >= 1
    THEN dominant_face
    ELSE facial_emotion

\* lines 55-57
effective_facial_emotion(facial_emotion, valid_face, dominant_face) ==
    IF /\ facial_emotion \notin {"No Face", "Error", "Initializing..."}
       /\ Len(valid_face) >= 3
    THEN dominant_face
    ELSE facial_emotion

\* lines 59-61
effective_speech_emotion(speech_emotion, valid_speech, dominant_speech) ==
    IF /\ speech_emotion \notin {"No Speech Input", "Error", "Initializing..."}
       /\ Len(valid_speech) >= 3
    THEN dominant_speech
    ELSE speech_emotion

\* congruence by the map alone, without the test for equal labels
is_congruent_MapOnly(self, effective_face, effective_speech) ==
    /\ effective_face \in DOMAIN self.emotion_congruence_map
    /\ effective_speech \in self.emotion_congruence_map[effective_face]

\* congruence with the map consulted in both directions
is_congruent_Symmetric(self, effective_face, effective_speech) ==
    \/ effective_face = effective_speech
    \/ /\ effective_face \in DOMAIN self.emotion_congruence_map
       /\ effective_speech \in self.emotion_congruence_map[effective_face]
    \/ /\ effective_speech \in DOMAIN self.emotion_congruence_map
       /\ effective_face \in self.emotion_congruence_map[effective_speech]

\* lines 71-76
is_congruent(self, effective_face, effective_speech) ==
    \/ effective_face = effective_speech
    \/ /\ effective_face \in DOMAIN self.emotion_congruence_map
       /\ effective_speech \in self.emotion_congruence_map[effective_face]

\* a congruence check that does not skip the sentinels
Incongruent_AnyLabel(self, effective_face, effective_speech) ==
    ~is_congruent(self, effective_face, effective_speech)

\* lines 68-80: the condition of the x0.5 penalty
Incongruent(self, effective_face, effective_speech) ==
    /\ effective_face \notin {"No Face", "Error", "Initializing..."}
    /\ effective_speech \notin {"No Speech Input", "Error", "Initializing..."}
    /\ ~is_congruent(self, effective_face, effective_speech)

neutral_face_count(facial_emotion_history) ==
    CountIn(facial_emotion_history, {"neutral", "No Face", "Initializing..."})

neutral_speech_count(speech_emotion_history) ==
    CountIn(speech_emotion_history, {"neutral", "calm", "No Speech Input", "Initializing..."})

\* the static face with calm counted among the static entries of the history
StaticFace_CalmCounts(dominant_face, dominant_speech, facial_emotion_history) ==
    /\ dominant_face \in {"neutral", "No Face", "calm"}
    /\ dominant_speech \notin {"neutral", "calm", "No Speech Input", "Error", "Initializing..."}
    /\ ShareAbove(CountIn(facial_emotion_history,
                          {"neutral", "No Face", "calm", "Initializing..."}),
                  facial_emotion_history, Lit_0_7)

\* lines 88-92: the condition of the x0.6 penalty for a static face with an
\* expressive voice
StaticFace(dominant_face, dominant_speech, facial_emotion_history) ==
    /\ dominant_face \in {"neutral", "No Face", "calm"}
    /\ dominant_speech \notin {"neutral", "calm", "No Speech Input", "Error", "Initializing..."}
    /\ ShareAbove(neutral_face_count(facial_emotion_history), facial_emotion_history, Lit_0_7)

\* the static voice as the mirror image of the static face: the dominant
\* facial label none of the sentinels and none of the static labels
StaticVoice_Mirror(dominant_speech, dominant_face, speech_emotion_history) ==
    /\ dominant_speech \in {"neutral", "calm", "No Speech Input"}
    /\ dominant_face \notin {"neutral", "calm", "No Face", "Error", "Initializing..."}
    /\ ShareAbove(neutral_speech_count(speech_emotion_history), speech_emotion_history, Lit_0_7)

\* lines 98-102: the condition of the x0.6 penalty for a static voice with
\* an expressive face
StaticVoice(dominant_speech, dominant_face, speech_emotion_history) ==
    /\ dominant_speech \in {"neutral", "calm", "No Speech Input"}
    /\ dominant_face \notin {"neutral", "No Face", "Initializing..."}
    /\ ShareAbove(neutral_speech_count(speech_emotion_history), speech_emotion_history, Lit_0_7)

\* authenticity_score *= factor when the condition holds
Penalize(authenticity_score, condition, factor) ==
    IF condition THEN FMul(authenticity_score, factor) ELSE authenticity_score

\* lines 17, 30, 38, 82, 93, 103: authenticity_score = 1.0, then the five
\* penalties in the order of the code, for each outcome c of their five
\* conditions (the products computed once)
Penalized ==
    Table([c \in [1..5 -> BOOLEAN] |->
        Penalize(Penalize(Penalize(Penalize(Penalize(Lit_1_0,
            c[1], Lit_0_1), c[2], Lit_0_1), c[3], Lit_0_5), c[4], Lit_0_6), c[5], Lit_0_6)])

\* a clamp to a scale of percent, max(0.0, min(100.0, authenticity_score * 100))
Clamp_Percent(authenticity_score) ==
    LET p == FMulInt(authenticity_score, 100)
    IN  IF FLess(FromInt(100), p) THEN FromInt(100) ELSE p

\* line 109: max(0.0, min(1.0, authenticity_score))
Clamp(authenticity_score) ==
    LET m == IF FLess(Lit_1_0, authenticity_score) THEN Lit_1_0
             ELSE authenticity_score
    IN  IF FLess(m, Lit_0_0) THEN Lit_0_0 ELSE m

\* the status with a strict comparison, authenticity_score > threshold
Status_Strict(self, authenticity_score) ==
    IF FLess(self.authenticity_threshold, authenticity_score)
    THEN "AUTHENTIC" ELSE "POTENTIAL SPOOF"

\* line 110
Status(self, authenticity_score) ==
    IF FLeq(self.authenticity_threshold, authenticity_score)
    THEN "AUTHENTIC" ELSE "POTENTIAL SPOOF"

\* AuthenticityAnalyzer.analyze.  It returns authenticity_score and
\* authenticity_status; the record also holds what it prints on the way (the
\* dominant and the effective labels) and the outcome of the conditions of
\* its five penalties, in the order of the code.
analyze(self, facial_emotion, speech_emotion, facial_emotion_history, speech_emotion_history) ==
    LET valid_face == valid_face_hist(facial_emotion_history)
        valid_speech == valid_speech_hist(speech_emotion_history)
        dominant_face == dominant_in_hist(valid_face, facial_emotion)
        dominant_speech == dominant_in_hist(valid_speech, speech_emotion)
        effective_face ==
            effective_facial_emotion(facial_emotion, valid_face, dominant_face)
        effective_speech ==
            effective_speech_emotion(speech_emotion, valid_speech, dominant_speech)
        conditions ==
            <<FaceDegenerate(facial_emotion, facial_emotion_history),
              SpeechDegenerate(speech_emotion, speech_emotion_history),
              Incongruent(self, effective_face, effective_speech),
              StaticFace(dominant_face, dominant_speech, facial_emotion_history),
              StaticVoice(dominant_speech, dominant_face, speech_emotion_history)>>
        authenticity_score == Clamp(Penalized[conditions])
    IN  [dominant_face_in_hist |-> dominant_face,
         dominant_speech_in_hist |-> dominant_speech,
         effective_facial_emotion |-> effective_face,
         effective_speech_emotion |-> effective_speech,
         conditions |-> conditions,
         unclamped |-> Penalized[conditions],
         authenticity_score |-> authenticity_score,
         authenticity_status |-> Status(self, authenticity_score)]

(***************************************************************************)
(* video_processor.py                                                      *)
(***************************************************************************)
\* None where a str is expected, and None where an object is expected
None == "None"
NoneObject == [None |-> TRUE]
\* a local that is not assigned yet
UnboundObject == [unbound |-> TRUE]

\* a buffer that refuses the new entry once it is full
DequeAppend_KeepOldest(history, e, maxlen) ==
    IF Len(history) < maxlen THEN Append(history, e) ELSE history

\* deque(maxlen = maxlen).append(e)
DequeAppend(history, e, maxlen) ==
    IF Len(history) < maxlen THEN Append(history, e)
    ELSE Append(Tail(history), e)

\* what DeepFace.analyze does with a frame: it returns a result with a
\* dominant emotion, returns an empty result, or raises
FaceResults ==
    {"sad", "calm", "[]", "ValueError: No facial detections", "ValueError", "Exception"}

\* what librosa.load does: it raises, or returns an array of that many
\* chunks of samples
AudioResults == {[raises |-> "Exception"]} \cup {[len |-> n] : n \in 0..MaxAudio}

\* VideoProcessor.__init__ on a source with that many frames
VideoProcessor(frames, history_length) ==
    [frames |-> frames,
     history_length |-> history_length,
     last_facial_emotion |-> "Initializing...",
     facial_emotion_history |-> << >>,
     demographies |-> None,
     released |-> FALSE]

\* the mutation below with any failure of the inference taken for no face
facial_emotion_of_NoFace(demographies) ==
    IF demographies \in {"[]", "ValueError: No facial detections", "ValueError", "Exception"}
    THEN "No Face" ELSE demographies

\* process_frame, lines 80-102: the label of a frame
facial_emotion_of(demographies) ==
    CASE demographies = "[]" -> "No Face"
      [] demographies = "ValueError: No facial detections" -> "No Face"
      [] demographies = "ValueError" -> "Error"
      [] demographies = "Exception" -> "Error"
      [] OTHER -> demographies

\* process_frame, lines 66 and 80-108, on a frame that was read: the
\* processor afterwards
process_frame(self, demographies) ==
    [self EXCEPT
        !.frames = @ - 1,
        !.demographies = demographies,
        !.last_facial_emotion = facial_emotion_of(demographies),
        !.facial_emotion_history =
            DequeAppend(@, facial_emotion_of(demographies), self.history_length)]

\* get_audio_from_video: an exception of librosa.load is printed and None
\* is returned
get_audio_from_video(y) == IF "raises" \in DOMAIN y THEN NoneObject ELSE y

(***************************************************************************)
(* audio_processor.py                                                      *)
(***************************************************************************)
\* what the SER pipeline does with the buffered audio: it returns results
\* with a top label, returns no result, or raises
SerResults == {"sad", "[]", "Exception"}

\* AudioProcessor.__init__ with use_live_mic = False; current_audio_chunk is
\* the number of chunks in the buffer
AudioProcessor(ser_process_interval, history_length) ==
    [ser_process_interval |-> ser_process_interval,
     history_length |-> history_length,
     current_audio_chunk |-> 0,
     total_audio_frames_collected |-> 0,
     last_speech_emotion |-> "Initializing...",
     speech_emotion_history |-> << >>,
     ser_results |-> None,
     stopped |-> FALSE]

\* add_audio_data with one chunk of the audio thread
add_audio_data(self) ==
    [self EXCEPT !.current_audio_chunk = @ + 1,
                 !.total_audio_frames_collected = @ + 1]

\* process_audio, lines 72-80: the label of the buffered audio
speech_emotion_of(ser_results) ==
    CASE ser_results = "[]" -> "No Speech Emotion"
      [] ser_results = "Exception" -> "Error"
      [] OTHER -> ser_results

\* process_audio: the processor afterwards; what it returns is its
\* last_speech_emotion and a copy of its speech_emotion_history
process_audio(self, ser_results) ==
    LET due == self.total_audio_frames_collected >= self.ser_process_interval
        buffered == self.current_audio_chunk > 0
        last == IF ~due THEN self.last_speech_emotion
                ELSE IF buffered THEN speech_emotion_of(ser_results)
                ELSE "No Speech Input"
    IN  [self EXCEPT
            !.current_audio_chunk = IF due /\ buffered THEN 0 ELSE @,
            !.total_audio_frames_collected = IF due /\ buffered THEN 0 ELSE @,
            !.ser_results = IF due /\ buffered THEN ser_results ELSE None,
            !.last_speech_emotion = last,
            !.speech_emotion_history = DequeAppend(@, last, self.history_length)]

(***************************************************************************)
(* State.  main()'s locals of the frame loop, which are the arguments of   *)
(* analyze; last_call records the latest call of analyze: its arguments,   *)
(* what it prints and what it returned.  The rest is the session of        *)
(* main.py: the two processors, the audio thread, shared_data, the result  *)
(* and the outcome of the process.  raised is the exception that reached   *)
(* the except clause of main().                                            *)
(***************************************************************************)
VARIABLES
    pc,
    current_facial_emotion,
    current_speech_emotion,
    facial_emotion_history,
    speech_emotion_history,
    all_authenticity_scores,
    last_call,
    path_exists,
    video_processor,
    audio_processor,
    total_audio_data,
    audio_thread,
    shared_data,
    frame_count,
    final_results,
    raised,
    output_json,
    exit_code

frame_vars == <<current_facial_emotion, current_speech_emotion,
                facial_emotion_history, speech_emotion_history>>

session_vars == <<path_exists, video_processor, audio_processor, total_audio_data,
                  audio_thread, shared_data, frame_count, final_results,
                  raised, output_json, exit_code>>

vars == <<pc, frame_vars, all_authenticity_scores, last_call, session_vars>>

NoCall == [called |-> FALSE]

\* main.py:105
authenticity_analyzer == AuthenticityAnalyzer(EMOTION_CONGRUENCE, AUTHENTICITY_THRESHOLD)

\* the arguments of a call of analyze
Arguments(facial_emotion, speech_emotion, facial_history, speech_history) ==
    [called |-> TRUE,
     facial_emotion |-> facial_emotion,
     speech_emotion |-> speech_emotion,
     facial_emotion_history |-> facial_history,
     speech_emotion_history |-> speech_history]

\* the call of an analyzer that remembers: it halves the score of a call
\* that follows a call it has answered with POTENTIAL SPOOF
ScoreFrame_Remembering ==
    /\ pc = "analyze"
    /\ LET ret == analyze(authenticity_analyzer,
                          current_facial_emotion, current_speech_emotion,
                          facial_emotion_history, speech_emotion_history)
           remembered == last_call.called
                           /\ last_call.authenticity_status = "POTENTIAL SPOOF"
           authenticity_score == Penalize(ret.authenticity_score, remembered, Lit_0_5)
       IN  /\ last_call' =
                Arguments(current_facial_emotion, current_speech_emotion,
                          facial_emotion_history, speech_emotion_history)
                @@ [authenticity_score |-> authenticity_score,
                    authenticity_status |->
                        Status(authenticity_analyzer, authenticity_score)]
                @@ ret
           /\ all_authenticity_scores' =
                Append(all_authenticity_scores, authenticity_score)
    /\ pc' = "process_frame"
    /\ UNCHANGED <<frame_vars, session_vars>>

\* main.py:136-140, one call of analyze and the append of its score
ScoreFrame ==
    /\ pc = "analyze"
    /\ LET ret == analyze(authenticity_analyzer,
                          current_facial_emotion, current_speech_emotion,
                          facial_emotion_history, speech_emotion_history)
       IN  /\ last_call' =
                Arguments(current_facial_emotion, current_speech_emotion,
                          facial_emotion_history, speech_emotion_history) @@ ret
           /\ all_authenticity_scores' =
                Append(all_authenticity_scores, ret.authenticity_score)
    /\ pc' = "process_frame"
    /\ UNCHANGED <<frame_vars, session_vars>>

(***************************************************************************)
(* main.py: the audio thread, audio_thread_function_for_file.  Its call of *)
(* process_audio and its first write to shared_data are one step (the call *)
(* touches nothing that main() reads), its second write is another.        *)
(***************************************************************************)
Unbound == "<unbound>"

\* the thread before start(); at: its position, branch: which of the two
\* calls of process_audio it is at, lines 51-53 or lines 61-63
NoThread ==
    [at |-> "not started", branch |-> None, current_audio_index |-> 0,
     speech_emo |-> Unbound, speech_hist |-> << >>]

\* main.py:22-27
InitialSharedData ==
    [current_speech_emotion |-> "Initializing...",
     speech_emotion_history |-> << >>,
     stop_audio_thread |-> FALSE]

\* the thread runs until main() exits (it is a daemon thread)
ThreadRuns(at) == audio_thread.at = at /\ pc # "exited"

\* line 40: the stop flag is set, the loop ends
ThreadStopped ==
    /\ ThreadRuns("while")
    /\ shared_data.stop_audio_thread
    /\ audio_thread' = [audio_thread EXCEPT !.at = "returned"]
    /\ UNCHANGED <<pc, frame_vars, all_authenticity_scores, last_call, path_exists,
                   video_processor, audio_processor, total_audio_data, shared_data,
                   frame_count, final_results, raised, output_json, exit_code>>

\* line 41 with total_audio_data None: len(None) raises TypeError in the
\* thread, which ends it
ThreadTypeError ==
    /\ ThreadRuns("while")
    /\ ~shared_data.stop_audio_thread
    /\ total_audio_data = NoneObject
    /\ audio_thread' = [audio_thread EXCEPT !.at = "TypeError"]
    /\ UNCHANGED <<pc, frame_vars, all_authenticity_scores, last_call, path_exists,
                   video_processor, audio_processor, total_audio_data, shared_data,
                   frame_count, final_results, raised, output_json, exit_code>>

\* lines 41-46: the next chunk is fed
ThreadFeed ==
    /\ ThreadRuns("while")
    /\ ~shared_data.stop_audio_thread
    /\ total_audio_data # NoneObject
    /\ audio_thread.current_audio_index < total_audio_data.len
    /\ audio_processor' = add_audio_data(audio_processor)
    /\ audio_thread' = [audio_thread EXCEPT !.current_audio_index = @ + 1,
                                            !.at = "process_audio",
                                            !.branch = "every"]
    /\ UNCHANGED <<pc, frame_vars, all_authenticity_scores, last_call, path_exists,
                   video_processor, total_audio_data, shared_data,
                   frame_count, final_results, raised, output_json, exit_code>>

\* lines 47-50: all is fed and the buffer is not empty
ThreadRemaining ==
    /\ ThreadRuns("while")
    /\ ~shared_data.stop_audio_thread
    /\ total_audio_data # NoneObject
    /\ audio_thread.current_audio_index >= total_audio_data.len
    /\ audio_processor.current_audio_chunk > 0
    /\ audio_thread' = [audio_thread EXCEPT !.at = "process_audio",
                                            !.branch = "remaining"]
    /\ UNCHANGED <<pc, frame_vars, all_authenticity_scores, last_call, path_exists,
                   video_processor, audio_processor, total_audio_data, shared_data,
                   frame_count, final_results, raised, output_json, exit_code>>

\* a thread that reports the end of the audio as No Speech Input before it
\* stops itself
ThreadFinished_NoSpeechInput ==
    /\ ThreadRuns("while")
    /\ ~shared_data.stop_audio_thread
    /\ total_audio_data # NoneObject
    /\ audio_thread.current_audio_index >= total_audio_data.len
    /\ audio_processor.current_audio_chunk = 0
    /\ shared_data' = [shared_data EXCEPT
                          !.stop_audio_thread = TRUE,
                          !.current_speech_emotion = "No Speech Input",
                          !.speech_emotion_history = <<"No Speech Input">>]
    /\ audio_thread' = [audio_thread EXCEPT !.at = "returned"]
    /\ UNCHANGED <<pc, frame_vars, all_authenticity_scores, last_call, path_exists,
                   video_processor, audio_processor, total_audio_data,
                   frame_count, final_results, raised, output_json, exit_code>>

\* lines 55-58: all is fed and the buffer is empty, the thread stops itself
ThreadFinished ==
    /\ ThreadRuns("while")
    /\ ~shared_data.stop_audio_thread
    /\ total_audio_data # NoneObject
    /\ audio_thread.current_audio_index >= total_audio_data.len
    /\ audio_processor.current_audio_chunk = 0
    /\ shared_data' = [shared_data EXCEPT !.stop_audio_thread = TRUE]
    /\ audio_thread' = [audio_thread EXCEPT !.at = "returned"]
    /\ UNCHANGED <<pc, frame_vars, all_authenticity_scores, last_call, path_exists,
                   video_processor, audio_processor, total_audio_data,
                   frame_count, final_results, raised, output_json, exit_code>>

\* a process_audio that returns its deque instead of a copy of it: every
\* list read from shared_data since the first write is that deque, and the
\* append of the call shows in each of them
ThreadProcessAudio_ReturnsDeque ==
    /\ ThreadRuns("process_audio")
    /\ \E ser_results \in SerResults :
          LET self == process_audio(audio_processor, ser_results)
              deque == self.speech_emotion_history
          IN  /\ audio_processor' = self
              /\ audio_thread' =
                    [audio_thread EXCEPT !.at = "speech_hist",
                                         !.speech_emo = self.last_speech_emotion,
                                         !.speech_hist = deque]
              /\ shared_data' =
                    [shared_data EXCEPT
                        !.current_speech_emotion = self.last_speech_emotion,
                        !.speech_emotion_history = IF @ # << >> THEN deque ELSE @]
              /\ speech_emotion_history' =
                    IF speech_emotion_history # << >> THEN deque
                    ELSE speech_emotion_history
    /\ UNCHANGED <<pc, current_facial_emotion, current_speech_emotion,
                   facial_emotion_history, all_authenticity_scores, last_call,
                   path_exists, video_processor, total_audio_data,
                   frame_count, final_results, raised, output_json, exit_code>>

\* lines 51-52 and lines 61-62: process_audio and the write of the label
ThreadProcessAudio ==
    /\ ThreadRuns("process_audio")
    /\ \E ser_results \in SerResults :
          LET self == process_audio(audio_processor, ser_results)
          IN  /\ audio_processor' = self
              /\ audio_thread' =
                    [audio_thread EXCEPT !.at = "speech_hist",
                                         !.speech_emo = self.last_speech_emotion,
                                         !.speech_hist = self.speech_emotion_history]
              /\ shared_data' =
                    [shared_data EXCEPT !.current_speech_emotion = self.last_speech_emotion]
    /\ UNCHANGED <<pc, frame_vars, all_authenticity_scores, last_call, path_exists,
                   video_processor, total_audio_data,
                   frame_count, final_results, raised, output_json, exit_code>>

\* lines 53 and 63: the write of the history; after line 53 comes line 61,
\* after line 63 the loop test
ThreadWriteHistory ==
    /\ ThreadRuns("speech_hist")
    /\ shared_data' =
          [shared_data EXCEPT !.speech_emotion_history = audio_thread.speech_hist]
    /\ audio_thread' =
          IF audio_thread.branch = "remaining"
          THEN [audio_thread EXCEPT !.at = "process_audio", !.branch = "every"]
          ELSE [audio_thread EXCEPT !.at = "while"]
    /\ UNCHANGED <<pc, frame_vars, all_authenticity_scores, last_call, path_exists,
                   video_processor, audio_processor, total_audio_data,
                   frame_count, final_results, raised, output_json, exit_code>>

(***************************************************************************)
(* main.py: main().                                                        *)
(***************************************************************************)
\* str(e) of an exception: the empty text (MemoryError(), AssertionError())
\* or some text
ExceptionTexts == {"", "error"}

NoException == [where |-> None]

\* the exit code while the process runs
NotExited == 0 - 1

\* main.py:90-98
InitialResults ==
    [is_authentic |-> "Error",
     risk_score |-> Lit_1_0,
     average_authenticity_score |-> Lit_0_0,
     total_frames_processed |-> 0,
     error_message |-> None]

NoScoresMessage ==
    "No authenticity scores could be generated from video (e.g., no frames processed)."

\* the truth value of final_results["error_message"]
Truthy(error_message) == error_message # None /\ error_message # ""

\* numpy.mean of a list of fewer than 8 floats: the sum from left to right,
\* divided by the length
RECURSIVE np_sum(_)
np_sum(a) ==
    IF Len(a) = 1 THEN a[1]
    ELSE FAdd(np_sum(SubSeq(a, 1, Len(a) - 1)), a[Len(a)])

np_mean(a) == FDivInt(np_sum(a), Len(a))

\* a rounding that keeps the value as it is
round_Identity(x, ndigits) == x

\* k / 100.0 for the k that rint returns for a risk or an average, the
\* quotients computed once
Quotient100 == Table([k \in 0..100 |-> Lit(k, 100)])

\* round(x, ndigits) of a numpy.float64: rint(x * 10^ndigits) / 10^ndigits
round(x, ndigits) ==
    LET k == Rint(FMulInt(x, 10^ndigits))
    IN  IF ndigits = 2 /\ k <= 100 THEN Quotient100[k] ELSE Lit(k, 10^ndigits)

\* the aggregation with the test "error_message is None" for the test
\* "not error_message" when there are no scores
Aggregate_IsNone(results, scores, frames) ==
    IF scores # << >>
    THEN LET final_authenticity_score == np_mean(scores)
             risk_score == FSub(Lit_1_0, final_authenticity_score)
         IN  [results EXCEPT
                !.is_authentic =
                    IF FLeq(AUTHENTICITY_THRESHOLD, final_authenticity_score)
                    THEN "Yes" ELSE "No",
                !.risk_score = round(risk_score, 2),
                !.average_authenticity_score = round(final_authenticity_score, 2),
                !.total_frames_processed = frames]
    ELSE [results EXCEPT
            !.is_authentic = "No",
            !.risk_score = Lit_1_0,
            !.average_authenticity_score = Lit_0_0,
            !.error_message = IF @ = None THEN NoScoresMessage ELSE @]

\* main.py:168-191
Aggregate(results, scores, frames) ==
    IF scores # << >>
    THEN LET final_authenticity_score == np_mean(scores)
             risk_score == FSub(Lit_1_0, final_authenticity_score)
         IN  [results EXCEPT
                !.is_authentic =
                    IF FLeq(AUTHENTICITY_THRESHOLD, final_authenticity_score)
                    THEN "Yes" ELSE "No",
                !.risk_score = round(risk_score, 2),
                !.average_authenticity_score = round(final_authenticity_score, 2),
                !.total_frames_processed = frames]
    ELSE [results EXCEPT
            !.is_authentic = "No",
            !.risk_score = Lit_1_0,
            !.average_authenticity_score = Lit_0_0,
            !.error_message = IF ~Truthy(@) THEN NoScoresMessage ELSE @]

\* an exception leaves the try block of main.py:100-140
Raise(where) ==
    /\ \E text \in ExceptionTexts : raised' = [where |-> where, text |-> text]
    /\ pc' = "except"

\* main.py:78-80
CheckPath ==
    /\ pc = "os.path.exists"
    /\ IF path_exists
       THEN pc' = "VideoProcessor" /\ exit_code' = exit_code
       ELSE pc' = "exited" /\ exit_code' = 1
    /\ UNCHANGED <<frame_vars, all_authenticity_scores, last_call, path_exists,
                   video_processor, audio_processor, total_audio_data, audio_thread,
                   shared_data, frame_count, final_results, raised, output_json>>

\* main.py:102; the source has some number of frames
ConstructVideo ==
    /\ pc = "VideoProcessor"
    /\ \E frames \in 0..MaxFrames :
          video_processor' = VideoProcessor(frames, HistoryLength)
    /\ pc' = "AudioProcessor"
    /\ UNCHANGED <<frame_vars, all_authenticity_scores, last_call, path_exists,
                   audio_processor, total_audio_data, audio_thread, shared_data,
                   frame_count, final_results, raised, output_json, exit_code>>

\* main.py:102, the capture cannot be opened
ConstructVideoRaises ==
    /\ pc = "VideoProcessor"
    /\ Raise("VideoProcessor")
    /\ UNCHANGED <<frame_vars, all_authenticity_scores, last_call, path_exists,
                   video_processor, audio_processor, total_audio_data, audio_thread,
                   shared_data, frame_count, final_results, output_json, exit_code>>

\* main.py:103-105
ConstructAudio ==
    /\ pc = "AudioProcessor"
    /\ audio_processor' = AudioProcessor(IntervalChunks, HistoryLength)
    /\ pc' = "get_audio_from_video"
    /\ UNCHANGED <<frame_vars, all_authenticity_scores, last_call, path_exists,
                   video_processor, total_audio_data, audio_thread, shared_data,
                   frame_count, final_results, raised, output_json, exit_code>>

\* main.py:103, the SER model cannot be loaded
ConstructAudioRaises ==
    /\ pc = "AudioProcessor"
    /\ Raise("AudioProcessor")
    /\ UNCHANGED <<frame_vars, all_authenticity_scores, last_call, path_exists,
                   video_processor, audio_processor, total_audio_data, audio_thread,
                   shared_data, frame_count, final_results, output_json, exit_code>>

\* main.py:107-110
ExtractAudio ==
    /\ pc = "get_audio_from_video"
    /\ \E y \in AudioResults : total_audio_data' = get_audio_from_video(y)
    /\ pc' = "Thread.start"
    /\ UNCHANGED <<frame_vars, all_authenticity_scores, last_call, path_exists,
                   video_processor, audio_processor, audio_thread, shared_data,
                   frame_count, final_results, raised, output_json, exit_code>>

\* main.py:113-121
StartThread ==
    /\ pc = "Thread.start"
    /\ audio_thread' = [audio_thread EXCEPT !.at = "while"]
    /\ frame_count' = 0
    /\ pc' = "process_frame"
    /\ UNCHANGED <<frame_vars, all_authenticity_scores, last_call, path_exists,
                   video_processor, audio_processor, total_audio_data, shared_data,
                   final_results, raised, output_json, exit_code>>

\* main.py:118, the thread cannot be started
StartThreadRaises ==
    /\ pc = "Thread.start"
    /\ Raise("Thread.start")
    /\ UNCHANGED <<frame_vars, all_authenticity_scores, last_call, path_exists,
                   video_processor, audio_processor, total_audio_data, audio_thread,
                   shared_data, frame_count, final_results, output_json, exit_code>>

\* main.py:124-129 with a frame
NextFrame ==
    /\ pc = "process_frame"
    /\ video_processor # NoneObject
    /\ video_processor.frames > 0
    /\ \E demographies \in FaceResults :
          LET self == process_frame(video_processor, demographies)
          IN  /\ video_processor' = self
              /\ current_facial_emotion' = self.last_facial_emotion
              /\ facial_emotion_history' = self.facial_emotion_history
    /\ frame_count' = frame_count + 1
    /\ pc' = "current_speech_emotion"
    /\ UNCHANGED <<current_speech_emotion, speech_emotion_history,
                   all_authenticity_scores, last_call, path_exists,
                   audio_processor, total_audio_data, audio_thread, shared_data,
                   final_results, raised, output_json, exit_code>>

\* an exception in the frame loop after the frame is counted and before its
\* score is appended
NextFrameRaises_AfterCount ==
    /\ pc = "process_frame"
    /\ video_processor # NoneObject
    /\ video_processor.frames > 0
    /\ Raise("cap.read")
    /\ frame_count' = frame_count + 1
    /\ UNCHANGED <<frame_vars, all_authenticity_scores, last_call, path_exists,
                   video_processor, audio_processor, total_audio_data, audio_thread,
                   shared_data, final_results, output_json, exit_code>>

\* main.py:124, the read of the frame raises
NextFrameRaises ==
    /\ pc = "process_frame"
    /\ video_processor # NoneObject
    /\ video_processor.frames > 0
    /\ Raise("cap.read")
    /\ UNCHANGED <<frame_vars, all_authenticity_scores, last_call, path_exists,
                   video_processor, audio_processor, total_audio_data, audio_thread,
                   shared_data, frame_count, final_results, output_json, exit_code>>

\* a frame loop that ends only when the audio thread has returned
EndOfVideo_AfterAudio ==
    /\ pc = "process_frame"
    /\ video_processor # NoneObject
    /\ video_processor.frames = 0
    /\ audio_thread.at = "returned"
    /\ pc' = "finally"
    /\ UNCHANGED <<frame_vars, all_authenticity_scores, last_call, session_vars>>

\* main.py:124-127 at the end of the video
EndOfVideo ==
    /\ pc = "process_frame"
    /\ video_processor # NoneObject
    /\ video_processor.frames = 0
    /\ pc' = "finally"
    /\ UNCHANGED <<frame_vars, all_authenticity_scores, last_call, session_vars>>

\* main.py:132
ReadSpeechEmotion ==
    /\ pc = "current_speech_emotion"
    /\ current_speech_emotion' = shared_data.current_speech_emotion
    /\ pc' = "speech_emotion_history"
    /\ UNCHANGED <<current_facial_emotion, facial_emotion_history,
                   speech_emotion_history, all_authenticity_scores, last_call,
                   session_vars>>

\* main.py:133
ReadSpeechHistory ==
    /\ pc = "speech_emotion_history"
    /\ speech_emotion_history' = shared_data.speech_emotion_history
    /\ pc' = "analyze"
    /\ UNCHANGED <<current_facial_emotion, facial_emotion_history,
                   current_speech_emotion, all_authenticity_scores, last_call,
                   session_vars>>

\* main.py:145-149
Except ==
    /\ pc = "except"
    /\ final_results' = [final_results EXCEPT !.error_message = raised.text,
                                              !.is_authentic = "Error",
                                              !.risk_score = Lit_1_0]
    /\ pc' = "finally"
    /\ UNCHANGED <<frame_vars, all_authenticity_scores, last_call, path_exists,
                   video_processor, audio_processor, total_audio_data, audio_thread,
                   shared_data, frame_count, raised, output_json, exit_code>>

\* main.py:153
Finally ==
    /\ pc = "finally"
    /\ shared_data' = [shared_data EXCEPT !.stop_audio_thread = TRUE]
    /\ pc' = "join"
    /\ UNCHANGED <<frame_vars, all_authenticity_scores, last_call, path_exists,
                   video_processor, audio_processor, total_audio_data, audio_thread,
                   frame_count, final_results, raised, output_json, exit_code>>

\* the cleanup with stop() only when both processors exist
Join_BothOrNone ==
    /\ pc = "join"
    /\ audio_processor' =
          IF audio_processor # NoneObject /\ video_processor # NoneObject
          THEN [audio_processor EXCEPT !.stopped = TRUE] ELSE audio_processor
    /\ video_processor' =
          IF audio_processor # NoneObject /\ video_processor # NoneObject
          THEN [video_processor EXCEPT !.released = TRUE] ELSE video_processor
    /\ pc' = "aggregate"
    /\ UNCHANGED <<frame_vars, all_authenticity_scores, last_call, path_exists,
                   total_audio_data, audio_thread, shared_data,
                   frame_count, final_results, raised, output_json, exit_code>>

\* main.py:154-165: join returns when the thread has ended or after its
\* timeout of 5 seconds; then stop() of the processors that exist
Join ==
    /\ pc = "join"
    /\ audio_processor' =
          IF audio_processor # NoneObject
          THEN [audio_processor EXCEPT !.stopped = TRUE] ELSE audio_processor
    /\ video_processor' =
          IF video_processor # NoneObject
          THEN [video_processor EXCEPT !.released = TRUE] ELSE video_processor
    /\ pc' = "aggregate"
    /\ UNCHANGED <<frame_vars, all_authenticity_scores, last_call, path_exists,
                   total_audio_data, audio_thread, shared_data,
                   frame_count, final_results, raised, output_json, exit_code>>

\* main.py:168-191
Aggregation ==
    /\ pc = "aggregate"
    /\ final_results' = Aggregate(final_results, all_authenticity_scores, frame_count)
    /\ pc' = "json.dump"
    /\ UNCHANGED <<frame_vars, all_authenticity_scores, last_call, path_exists,
                   video_processor, audio_processor, total_audio_data, audio_thread,
                   shared_data, frame_count, raised, output_json, exit_code>>

\* main.py:194-197
WriteResults ==
    /\ pc = "json.dump"
    /\ output_json' = final_results
    /\ pc' = "sys.exit"
    /\ UNCHANGED <<frame_vars, all_authenticity_scores, last_call, path_exists,
                   video_processor, audio_processor, total_audio_data, audio_thread,
                   shared_data, frame_count, final_results, raised, exit_code>>

\* main.py:198-200, the file cannot be written
WriteResultsRaises ==
    /\ pc = "json.dump"
    /\ exit_code' = 1
    /\ pc' = "exited"
    /\ UNCHANGED <<frame_vars, all_authenticity_scores, last_call, path_exists,
                   video_processor, audio_processor, total_audio_data, audio_thread,
                   shared_data, frame_count, final_results, raised, output_json>>

\* main.py:203-204 and the end of main()
Exit ==
    /\ pc = "sys.exit"
    /\ exit_code' = IF Truthy(final_results.error_message) THEN 1 ELSE 0
    /\ pc' = "exited"
    /\ UNCHANGED <<frame_vars, all_authenticity_scores, last_call, path_exists,
                   video_processor, audio_processor, total_audio_data, audio_thread,
                   shared_data, frame_count, final_results, raised, output_json>>

\* the start of main()
SessionInit ==
    /\ pc = "os.path.exists"
    /\ path_exists \in BOOLEAN
    /\ current_facial_emotion = Unbound
    /\ current_speech_emotion = Unbound
    /\ facial_emotion_history = << >>
    /\ speech_emotion_history = << >>
    /\ all_authenticity_scores = << >>
    /\ last_call = NoCall
    /\ video_processor = NoneObject
    /\ audio_processor = NoneObject
    /\ total_audio_data = UnboundObject
    /\ audio_thread = NoThread
    /\ shared_data = InitialSharedData
    /\ frame_count = 0
    /\ final_results = InitialResults
    /\ raised = NoException
    /\ output_json = NoneObject
    /\ exit_code = NotExited

SessionNext ==
    \/ CheckPath
    \/ ConstructVideo
    \/ ConstructVideoRaises
    \/ ConstructAudio
    \/ ConstructAudioRaises
    \/ ExtractAudio
    \/ StartThread
    \/ StartThreadRaises
    \/ NextFrame
    \/ NextFrameRaises
    \/ EndOfVideo
    \/ ReadSpeechEmotion
    \/ ReadSpeechHistory
    \/ ScoreFrame
    \/ Except
    \/ Finally
    \/ Join
    \/ Aggregation
    \/ WriteResults
    \/ WriteResultsRaises
    \/ Exit
    \/ ThreadStopped
    \/ ThreadTypeError
    \/ ThreadFeed
    \/ ThreadRemaining
    \/ ThreadFinished
    \/ ThreadProcessAudio
    \/ ThreadWriteHistory

SessionSpec == SessionInit /\ [][SessionNext]_vars

\* a step of the audio thread
ThreadStep ==
    \/ ThreadStopped
    \/ ThreadTypeError
    \/ ThreadFeed
    \/ ThreadRemaining
    \/ ThreadFinished
    \/ ThreadProcessAudio
    \/ ThreadWriteHistory

\* the session under a fair scheduler, as far as the two loops need it: the
\* call of process_frame at the end of the video returns, and the audio
\* thread takes a step when it can (process_audio and time.sleep return)
FairSessionSpec == SessionSpec /\ WF_vars(EndOfVideo) /\ WF_vars(ThreadStep)

(***************************************************************************)
(* analyze as a function: one call on arguments drawn from bounded sets.   *)
(* Every pair of labels with every pair of histories of at most MaxShort   *)
(* entries; and, for the shares of a history, every pair of non-empty      *)
(* histories of at most MaxRun entries made of one or two runs of a label, *)
(* with the label that process_frame and process_audio return with such a  *)
(* history, its last entry; and two histories of 10 entries, for a share   *)
(* of 90% and one of 70%.                                                  *)
(***************************************************************************)
FaceLabels == {"Initializing...", "No Face", "Error", "sad", "calm"}
SpeechLabels == {"Initializing...", "No Speech Input", "Error", "sad", "calm"}

RECURSIVE SeqsUpTo(_, _)
SeqsUpTo(S, n) ==
    IF n = 0 THEN {<< >>}
    ELSE LET r == SeqsUpTo(S, n - 1)
         IN  r \cup {Append(h, e) : h \in {t \in r : Len(t) = n - 1}, e \in S}

Repeat(e, n) == [i \in 1..n |-> e]

Runs(S, n) ==
    {Repeat(q[1], q[2]) \o Repeat(q[3], q[4]) :
        q \in {r \in S \X (1..n) \X S \X (0..(n - 1)) : r[2] + r[4] <= n}}

ShortFaceHistories == SeqsUpTo(FaceLabels, MaxShort)
ShortSpeechHistories == SeqsUpTo(SpeechLabels, MaxShort)
FaceRuns == Runs(FaceLabels \cup {"neutral"}, MaxRun)
SpeechRuns == Runs(SpeechLabels \cup {"neutral"}, MaxRun)

\* two facial histories of 10 entries, 9 and 7 of them neutral, and a speech
\* history of happy
ExampleFaceHistories ==
    {<<"sad">> \o Repeat("neutral", 9), Repeat("sad", 3) \o Repeat("neutral", 7)}
ExampleSpeechHistory == Repeat("happy", 3) \o <<"happy">>

\* the state at main.py:136, before the call
Init ==
    /\ pc = "analyze"
    /\ \/ /\ facial_emotion_history \in ExampleFaceHistories
          /\ speech_emotion_history = ExampleSpeechHistory
          /\ current_facial_emotion = "neutral"
          /\ current_speech_emotion = "happy"
       \/ /\ current_facial_emotion \in FaceLabels
          /\ current_speech_emotion \in SpeechLabels
          /\ facial_emotion_history \in ShortFaceHistories
          /\ speech_emotion_history \in ShortSpeechHistories
       \/ /\ facial_emotion_history \in FaceRuns
          /\ speech_emotion_history \in SpeechRuns
          /\ current_facial_emotion = facial_emotion_history[Len(facial_emotion_history)]
          /\ current_speech_emotion = speech_emotion_history[Len(speech_emotion_history)]
    /\ all_authenticity_scores = << >>
    /\ last_call = NoCall
    /\ path_exists = TRUE
    /\ video_processor = NoneObject
    /\ audio_processor = NoneObject
    /\ total_audio_data = UnboundObject
    /\ audio_thread = NoThread
    /\ shared_data = InitialSharedData
    /\ frame_count = 0
    /\ final_results = InitialResults
    /\ raised = NoException
    /\ output_json = NoneObject
    /\ exit_code = NotExited

Next == ScoreFrame

Spec == Init /\ [][Next]_vars

(***************************************************************************)
(* The claims about analyze.                                               *)
(***************************************************************************)
FaceSentinels == {"Initializing...", "No Face", "Error"}
SpeechSentinels == {"Initializing...", "No Speech Input", "Error"}

\* more than num/den of the entries of history are in labels
ShareOver(history, labels, num, den) ==
    Len(history) > 0 /\ den * CountIn(history, labels) > num * Len(history)

\* C1: every score that analyze returns is between 0 and 1.
C1_ScoreInUnitInterval ==
    last_call.called =>
        /\ FLeq(Lit_0_0, last_call.authenticity_score)
        /\ FLeq(last_call.authenticity_score, Lit_1_0)

\* a call on empty histories, and one on histories of sentinels only that
\* draws both x0.1 penalties
C1_Witness ==
    /\ last_call.called
    /\ last_call.conditions[1] /\ last_call.conditions[2]
    /\ FLess(last_call.authenticity_score, Lit_0_1)
    /\ CountIn(last_call.facial_emotion_history, FaceSentinels)
          = Len(last_call.facial_emotion_history)

\* C2: the status is AUTHENTIC exactly when the score is at least the
\* threshold, also when it equals the threshold, and POTENTIAL SPOOF otherwise.
C2_StatusByThreshold ==
    last_call.called =>
        /\ last_call.authenticity_status \in {"AUTHENTIC", "POTENTIAL SPOOF"}
        /\ last_call.authenticity_status = "AUTHENTIC"
              <=> ~FLess(last_call.authenticity_score, AUTHENTICITY_THRESHOLD)

C2_Witness ==
    /\ last_call.called
    /\ last_call.authenticity_score = AUTHENTICITY_THRESHOLD
    /\ last_call.authenticity_status = "AUTHENTIC"

\* C3 as claimed: both current labels sentinels (Initializing... included)
\* and more than 80% of each history sentinels give a score <= 0.01.
C3_Original ==
    (/\ last_call.called
     /\ last_call.facial_emotion \in FaceSentinels
     /\ last_call.speech_emotion \in SpeechSentinels
     /\ ShareOver(last_call.facial_emotion_history, FaceSentinels, 8, 10)
     /\ ShareOver(last_call.speech_emotion_history, SpeechSentinels, 8, 10))
    => FLeq(last_call.authenticity_score, Lit(1, 100))

\* C3 as the code has it: with both current labels Error or the no-input
\* sentinel (not Initializing...) and more than 80% of each history
\* sentinels, both x0.1 penalties apply and the score is at most the double
\* 0.1 * 0.1 = 0.010000000000000002, which is more than 0.01; it is less
\* exactly when a static penalty applies too.  A current label Initializing...
\* draws no x0.1 penalty.
C3_BothDegenerate ==
    /\ (/\ last_call.called
        /\ last_call.facial_emotion \in {"Error", "No Face"}
        /\ last_call.speech_emotion \in {"Error", "No Speech Input"}
        /\ ShareOver(last_call.facial_emotion_history, FaceSentinels, 8, 10)
        /\ ShareOver(last_call.speech_emotion_history, SpeechSentinels, 8, 10))
       => /\ last_call.conditions[1] /\ last_call.conditions[2]
          /\ FLeq(last_call.authenticity_score, FMul(Lit_0_1, Lit_0_1))
          /\ FLess(last_call.authenticity_score, FMul(Lit_0_1, Lit_0_1))
                <=> (last_call.conditions[4] \/ last_call.conditions[5])
    /\ (last_call.called /\ last_call.facial_emotion = "Initializing...")
       => ~last_call.conditions[1]
    /\ (last_call.called /\ last_call.speech_emotion = "Initializing...")
       => ~last_call.conditions[2]

\* histories with a valid entry among the sentinels, both penalties applied
C3_Witness ==
    /\ last_call.called
    /\ last_call.facial_emotion = "No Face"
    /\ last_call.speech_emotion = "Error"
    /\ ShareOver(last_call.facial_emotion_history, FaceSentinels, 8, 10)
    /\ ShareOver(last_call.speech_emotion_history, SpeechSentinels, 8, 10)
    /\ CountIn(last_call.facial_emotion_history, FaceSentinels)
          < Len(last_call.facial_emotion_history)
    /\ last_call.authenticity_score = FMul(Lit_0_1, Lit_0_1)
    /\ FLess(Lit(1, 100), last_call.authenticity_score)


\* C4 as claimed: equal non-sentinel current labels and no degenerate or
\* static condition give no congruence penalty and the score 1.0, whatever
\* the histories.
C4_Original ==
    (/\ last_call.called
     /\ last_call.facial_emotion = last_call.speech_emotion
     /\ last_call.facial_emotion \notin FaceSentinels \cup SpeechSentinels
     /\ ~last_call.conditions[1] /\ ~last_call.conditions[2]
     /\ ~last_call.conditions[4] /\ ~last_call.conditions[5])
    => /\ ~last_call.conditions[3]
       /\ last_call.authenticity_score = Lit_1_0

\* C4 as the code has it: the congruence test is on the effective labels
\* (the current label, or the dominant label of the valid history once it
\* has 3 entries).  Equal non-sentinel effective labels give no congruence
\* penalty and no degenerate penalty, and the score 1.0 when no static
\* condition holds; equal non-sentinel current labels with fewer than 3
\* valid entries in each history are the effective labels.
C4_SameEffectiveLabel ==
    /\ (/\ last_call.called
        /\ last_call.effective_facial_emotion = last_call.effective_speech_emotion
        /\ last_call.effective_facial_emotion \notin FaceSentinels \cup SpeechSentinels)
       => /\ ~last_call.conditions[1] /\ ~last_call.conditions[2]
          /\ ~last_call.conditions[3]
          /\ (~last_call.conditions[4] /\ ~last_call.conditions[5])
                => last_call.authenticity_score = Lit_1_0
    /\ (/\ last_call.called
        /\ last_call.facial_emotion = last_call.speech_emotion
        /\ last_call.facial_emotion \notin FaceSentinels \cup SpeechSentinels
        /\ Len(Without(last_call.facial_emotion_history, FaceSentinels)) < 3
        /\ Len(Without(last_call.speech_emotion_history, SpeechSentinels)) < 3)
       => /\ last_call.effective_facial_emotion = last_call.facial_emotion
          /\ last_call.effective_speech_emotion = last_call.speech_emotion
          /\ ~last_call.conditions[3]

\* calm on both sides, a label without an entry in the map, taken from the
\* histories and not from the current labels
C4_Witness ==
    /\ last_call.called
    /\ last_call.effective_facial_emotion = "calm"
    /\ last_call.effective_speech_emotion = "calm"
    /\ last_call.facial_emotion = "sad"
    /\ Len(last_call.facial_emotion_history) >= 3
    /\ ~last_call.conditions[3]
    /\ last_call.authenticity_score = Lit_1_0

\* the rule of lines 71-76 on the configured map
CongruentByRule(face, speech) ==
    \/ face = speech
    \/ /\ face \in DOMAIN EMOTION_CONGRUENCE
       /\ speech \in EMOTION_CONGRUENCE[face]

\* C5: with both effective labels non-sentinel the x0.5 penalty is applied
\* exactly when they are neither equal nor mapped from the facial label to
\* the speech label; the configured map has sad -> calm and no entry for
\* calm, so (face sad, speech calm) is not penalised and (face calm, speech
\* sad) is, giving 0.5 when no other penalty applies.
C5_DirectionalCongruence ==
    (/\ last_call.called
     /\ last_call.effective_facial_emotion \notin FaceSentinels
     /\ last_call.effective_speech_emotion \notin SpeechSentinels)
    => /\ last_call.conditions[3]
            <=> ~CongruentByRule(last_call.effective_facial_emotion,
                                 last_call.effective_speech_emotion)
       /\ (/\ last_call.effective_facial_emotion = "sad"
           /\ last_call.effective_speech_emotion = "calm")
             => ~last_call.conditions[3]
       /\ (/\ last_call.effective_facial_emotion = "calm"
           /\ last_call.effective_speech_emotion = "sad")
             => /\ last_call.conditions[3]
                /\ (~last_call.conditions[4] /\ ~last_call.conditions[5])
                      => last_call.authenticity_score = Lit_0_5

C5_Witness ==
    /\ last_call.called
    /\ last_call.effective_facial_emotion = "calm"
    /\ last_call.effective_speech_emotion = "sad"
    /\ last_call.conditions[3]
    /\ last_call.authenticity_score = Lit_0_5

\* exactly num/den of the entries of history are in labels
ShareIs(history, labels, num, den) ==
    Len(history) > 0 /\ den * CountIn(history, labels) = num * Len(history)

\* C15: the x0.1 penalty of a modality is applied exactly when the current
\* label is Error or the no-input sentinel of the modality, the history is
\* not empty and more than 80% of its entries are Error, that sentinel or
\* Initializing...; so not with the current label Initializing..., not with a
\* share of exactly 80%, and not with one sentinel after valid entries.
C15_DegenerateIff ==
    last_call.called =>
        /\ last_call.conditions[1]
              <=> /\ last_call.facial_emotion \in {"Error", "No Face"}
                  /\ ShareOver(last_call.facial_emotion_history, FaceSentinels, 8, 10)
        /\ last_call.conditions[2]
              <=> /\ last_call.speech_emotion \in {"Error", "No Speech Input"}
                  /\ ShareOver(last_call.speech_emotion_history, SpeechSentinels, 8, 10)
        /\ last_call.facial_emotion = "Initializing..." => ~last_call.conditions[1]
        /\ last_call.speech_emotion = "Initializing..." => ~last_call.conditions[2]
        /\ ShareIs(last_call.facial_emotion_history, FaceSentinels, 8, 10)
              => ~last_call.conditions[1]
        /\ ShareIs(last_call.speech_emotion_history, SpeechSentinels, 8, 10)
              => ~last_call.conditions[2]
        /\ (/\ Len(last_call.facial_emotion_history) >= 2
            /\ CountIn(last_call.facial_emotion_history, FaceSentinels) = 1)
              => ~last_call.conditions[1]
        /\ (/\ Len(last_call.speech_emotion_history) >= 2
            /\ CountIn(last_call.speech_emotion_history, SpeechSentinels) = 1)
              => ~last_call.conditions[2]
        /\ (last_call.conditions[1] /\ ~last_call.conditions[2])
              => FLeq(last_call.authenticity_score, Lit_0_1)
        /\ last_call.conditions = <<TRUE, FALSE, FALSE, FALSE, FALSE>>
              => last_call.authenticity_score = Lit_0_1

\* four of five entries are sentinels and the current label is Error: no
\* penalty for the face
C15_Witness ==
    /\ last_call.called
    /\ last_call.facial_emotion = "Error"
    /\ Len(last_call.facial_emotion_history) = 5
    /\ ShareIs(last_call.facial_emotion_history, FaceSentinels, 8, 10)
    /\ ~last_call.conditions[1]
    /\ last_call.conditions[2]

\* the index of the first e in s
FirstIndex(s, e) == CHOOSE i \in 1..Len(s) : s[i] = e /\ \A j \in 1..(i - 1) : s[j] # e

\* d is the dominant label of a history whose entries outside sentinels are
\* valid, with the current label current
DominantOf(d, history, sentinels, current) ==
    LET valid == Without(history, sentinels)
    IN  IF valid = << >> THEN d = current
        ELSE /\ \E i \in 1..Len(valid) : valid[i] = d
             /\ \A i \in 1..Len(valid) :
                   \/ CountIn(valid, {valid[i]}) < CountIn(valid, {d})
                   \/ /\ CountIn(valid, {valid[i]}) = CountIn(valid, {d})
                      /\ FirstIndex(valid, d) <= FirstIndex(valid, valid[i])

\* C16: the dominant label of a modality is the most frequent label among
\* the entries of its history that are not sentinels, the one inserted first
\* among the most frequent; it is the current label, sentinel or not, when
\* the history has no such entry.
C16_DominantLabel ==
    last_call.called =>
        /\ DominantOf(last_call.dominant_face_in_hist, last_call.facial_emotion_history,
                      FaceSentinels, last_call.facial_emotion)
        /\ DominantOf(last_call.dominant_speech_in_hist, last_call.speech_emotion_history,
                      SpeechSentinels, last_call.speech_emotion)

\* two facial labels with the same count, the first one dominant and not the
\* current one; no valid speech label, the sentinel Error dominant
C16_Witness ==
    /\ last_call.called
    /\ last_call.facial_emotion_history = <<"calm", "sad">>
    /\ last_call.facial_emotion = "sad"
    /\ last_call.dominant_face_in_hist = "calm"
    /\ last_call.speech_emotion_history = <<"Initializing...", "Error">>
    /\ last_call.speech_emotion = "Error"
    /\ last_call.dominant_speech_in_hist = "Error"

StaticFaceOnce ==
    Table([c \in [1..5 -> BOOLEAN] |-> FMul(Penalized[[c EXCEPT ![4] = FALSE]], Lit_0_6)])

\* C18: the x0.6 penalty of the static face is applied, once, exactly when
\* the dominant facial label is neutral, No Face or calm, the dominant
\* speech label is none of neutral, calm, No Speech Input, Error and
\* Initializing..., and more than 70% of the facial history is neutral,
\* No Face or Initializing...; it excludes the penalty of the static voice;
\* alone it gives the score 0.6; it is applied with 9 neutral entries of 10
\* and a speech history of happy (next to the penalty for neutral against
\* happy), and not with 7 neutral entries of 10.
C18_StaticFace ==
    /\ last_call.called =>
        /\ last_call.conditions[4]
              <=> /\ last_call.dominant_face_in_hist \in {"neutral", "No Face", "calm"}
                  /\ last_call.dominant_speech_in_hist
                        \notin {"neutral", "calm", "No Speech Input", "Error",
                                "Initializing..."}
                  /\ ShareOver(last_call.facial_emotion_history,
                               {"neutral", "No Face", "Initializing..."}, 7, 10)
        /\ ~(last_call.conditions[4] /\ last_call.conditions[5])
        /\ last_call.conditions[4]
              => last_call.unclamped = StaticFaceOnce[last_call.conditions]
        /\ last_call.conditions = <<FALSE, FALSE, FALSE, TRUE, FALSE>>
              => last_call.authenticity_score = Lit_0_6
    /\ (/\ last_call.called
        /\ last_call.facial_emotion_history = <<"sad">> \o Repeat("neutral", 9)
        /\ last_call.speech_emotion_history = Repeat("happy", 3) \o <<"happy">>)
       => /\ last_call.conditions = <<FALSE, FALSE, TRUE, TRUE, FALSE>>
          /\ last_call.authenticity_score = StaticFaceOnce[last_call.conditions]
          /\ FLess(last_call.authenticity_score, Lit_0_5)
    /\ (/\ last_call.called
        /\ last_call.facial_emotion_history = Repeat("sad", 3) \o Repeat("neutral", 7))
       => /\ last_call.dominant_face_in_hist = "neutral"
          /\ ~last_call.conditions[4]

\* five neutral entries of six, the speech sad: the static face alone
C18_Witness ==
    /\ last_call.called
    /\ Len(last_call.facial_emotion_history) = 6
    /\ CountIn(last_call.facial_emotion_history, {"neutral"}) = 5
    /\ last_call.dominant_face_in_hist = "neutral"
    /\ last_call.dominant_speech_in_hist = "sad"
    /\ last_call.conditions = <<FALSE, FALSE, FALSE, TRUE, FALSE>>
    /\ last_call.authenticity_score = Lit_0_6

DecimalScores ==
    {Lit_1_0, Lit_0_6, Lit_0_5, Lit(3, 10), Lit_0_1, Lit(6, 100), Lit(1, 100),
     Lit(6, 1000)}

\* the eight scores as the products that the code computes
ProductScores ==
    {Lit_1_0, Lit_0_6, Lit_0_5, FMul(Lit_0_5, Lit_0_6), Lit_0_1,
     FMul(Lit_0_1, Lit_0_6), FMul(Lit_0_1, Lit_0_1),
     FMul(FMul(Lit_0_1, Lit_0_1), Lit_0_6)}

\* the lowest score, 0.1 * 0.1 * 0.6
LowestScore == FMul(FMul(Lit_0_1, Lit_0_1), Lit_0_6)

\* the scores after both x0.1 penalties
DoublyDegenerateScores == {FMul(Lit_0_1, Lit_0_1), LowestScore}

\* the products against the decimals: 0.5 * 0.6 is the double 0.3 and
\* 0.1 * 0.6 the double 0.06, but 0.1 * 0.1 is above the double 0.01 and
\* 0.1 * 0.1 * 0.6 above the double 0.006
ProductsAndDecimals ==
    /\ FMul(Lit_0_5, Lit_0_6) = Lit(3, 10)
    /\ FMul(Lit_0_1, Lit_0_6) = Lit(6, 100)
    /\ FLess(Lit(1, 100), FMul(Lit_0_1, Lit_0_1))
    /\ FLess(Lit(6, 1000), LowestScore)
    /\ ProductScores \cap DecimalScores = ProductScores \ DoublyDegenerateScores

\* C24 as claimed: the two static penalties exclude each other, the
\* congruence penalty excludes the degenerate ones, and the score is one of
\* 1, 0.6, 0.5, 0.3, 0.1, 0.06, 0.01 and 0.006, at least 0.006, not 0, and
\* what it was before the clamp.
C24_Original ==
    last_call.called =>
        /\ ~(last_call.conditions[4] /\ last_call.conditions[5])
        /\ ~(last_call.conditions[3]
               /\ (last_call.conditions[1] \/ last_call.conditions[2]))
        /\ last_call.authenticity_score \in DecimalScores
        /\ FLeq(Lit(6, 1000), last_call.authenticity_score)
        /\ last_call.authenticity_score # Lit_0_0
        /\ last_call.authenticity_score = last_call.unclamped

\* C24 as the code has it: the same, with the eight scores being the
\* products of the factors as doubles: 1, 0.6, 0.5, 0.3, 0.1, 0.06,
\* 0.1 * 0.1 = 0.010000000000000002 and 0.1 * 0.1 * 0.6 =
\* 0.006000000000000001, the last two a rounding above 0.01 and 0.006.
C24_Scores ==
    /\ ProductsAndDecimals
    /\ last_call.called =>
        /\ ~(last_call.conditions[4] /\ last_call.conditions[5])
        /\ ~(last_call.conditions[3]
               /\ (last_call.conditions[1] \/ last_call.conditions[2]))
        /\ last_call.authenticity_score \in ProductScores
        /\ FLeq(LowestScore, last_call.authenticity_score)
        /\ last_call.authenticity_score # Lit_0_0
        /\ last_call.authenticity_score = last_call.unclamped
        /\ (last_call.conditions[1] /\ last_call.conditions[2])
              <=> last_call.authenticity_score \in DoublyDegenerateScores

\* both signals degenerate and a static face: the lowest score
C24_Witness ==
    /\ last_call.called
    /\ last_call.conditions = <<TRUE, TRUE, FALSE, TRUE, FALSE>>
    /\ last_call.authenticity_score = LowestScore
    /\ last_call.authenticity_score \notin DecimalScores

(***************************************************************************)
(* The claims about the session.                                           *)
(***************************************************************************)
\* main() is past its aggregation of the scores
Aggregated == pc \in {"json.dump", "sys.exit"} \/ (pc = "exited" /\ path_exists)

\* main() is past its cleanup
CleanedUp == pc = "aggregate" \/ Aggregated

\* |a - b| <= d
Within(a, b, d) ==
    IF BigLess(a, b) THEN ~BigLess(d, BigSub(b, a)) ELSE ~BigLess(d, BigSub(a, b))

\* the doubles of the hundredths 0.00 .. 1.00
Hundredths == Table([k \in 0..100 |-> Lit(k, 100)])

\* 1/2, and 2^-14 for the rounding of a product 100 x
HalfAndABit == BigAdd(Lit(1, 2), Lit(1, 2^14))

\* v is the double of a number of hundredths k/100 with |100 x - k| <= 1/2,
\* up to the rounding of the product 100 x
NearestHundredth(x, v) ==
    \E k \in 0..100 :
        /\ v = Hundredths[k]
        /\ Within(BigScale(x, 100), FromInt(k), HalfAndABit)

\* the scores 0.8, 0.6, 1.0 of the example, aggregated
C6_Example == Aggregate(InitialResults, <<Lit(8, 10), Lit(6, 10), Lit_1_0>>, 3)

\* the example gives 0.8, 0.2 and Yes
C6_ExampleAsStated ==
    /\ C6_Example.average_authenticity_score = Lit(8, 10)
    /\ C6_Example.risk_score = Lit(2, 10)
    /\ C6_Example.is_authentic = "Yes"

\* 2^-28, more than any rounding error of the arithmetic on the scores
Tiny == FMul(Lit(1, 2^14), Lit(1, 2^14))

\* C6 as claimed: with scores, the persisted average is their mean, the
\* verdict is Yes iff the mean is at least the threshold and the risk is
\* 1 - average (each up to the rounding errors of doubles).
C6_Original ==
    (Aggregated /\ all_authenticity_scores # << >>)
    => /\ Within(final_results.average_authenticity_score,
                 np_mean(all_authenticity_scores), Tiny)
       /\ final_results.is_authentic
             = IF FLeq(AUTHENTICITY_THRESHOLD, np_mean(all_authenticity_scores))
               THEN "Yes" ELSE "No"
       /\ Within(BigAdd(final_results.risk_score,
                        final_results.average_authenticity_score), Lit_1_0, Tiny)

\* C6 as the code has it: with scores, the verdict is Yes iff the double
\* mean of the scores is at least the threshold (No otherwise, also after an
\* exception); the persisted average is that mean rounded to the nearest
\* hundredth and the persisted risk is 1.0 - mean rounded to the nearest
\* hundredth; the scores 0.8, 0.6, 1.0 give 0.8, 0.2 and Yes.  Stated of the
\* result as the aggregation leaves it, which is the result that is written.
C6_RoundedMean ==
    /\ (pc = "json.dump" /\ all_authenticity_scores # << >>)
       => LET mean == np_mean(all_authenticity_scores)
          IN  /\ final_results.is_authentic
                    = IF FLeq(AUTHENTICITY_THRESHOLD, mean) THEN "Yes" ELSE "No"
              /\ NearestHundredth(mean, final_results.average_authenticity_score)
              /\ NearestHundredth(FSub(Lit_1_0, mean), final_results.risk_score)
    /\ (Aggregated /\ output_json # NoneObject) => output_json = final_results
    /\ C6_ExampleAsStated

\* a session whose mean is not a number of hundredths
C6_Witness ==
    /\ pc = "sys.exit"
    /\ Len(all_authenticity_scores) >= 2
    /\ output_json # NoneObject
    /\ output_json.average_authenticity_score # np_mean(all_authenticity_scores)
    /\ output_json.is_authentic = "No"

C8_ExitCode ==
    pc = "exited"
    => /\ exit_code \in {0, 1}
       /\ exit_code = 0
             <=> /\ path_exists
                 /\ final_results.error_message = None
                 /\ output_json # NoneObject
       /\ (~path_exists \/ raised # NoException \/ output_json = NoneObject)
             => exit_code = 1

\* an exception raised in the session: one that reached the except clause,
\* or one of librosa.load
ExceptionInSession == raised # NoException \/ total_audio_data = NoneObject

\* C9 as claimed: after an exception in the session, the audio extraction
\* included, its text is in error_message, the cleanup has run and the
\* result is written.
C9_Original ==
    /\ (pc = "aggregate" /\ ExceptionInSession)
       => /\ final_results.error_message \in ExceptionTexts
          /\ shared_data.stop_audio_thread
          /\ audio_processor # NoneObject => audio_processor.stopped
          /\ video_processor # NoneObject => video_processor.released
    /\ (pc = "sys.exit" /\ ExceptionInSession) => output_json = final_results

\* C9 as the code has it: an exception that leaves the construction of a
\* processor, the start of the thread or the frame loop is caught, its text
\* is stored in error_message, the cleanup runs and the result is computed
\* and, unless the write fails, written, with the text when it is not empty.
\* An exception of the audio extraction is caught in get_audio_from_video,
\* which returns None: nothing is recorded and the audio thread feeds nothing.
C9_CaughtAtBoundary ==
    /\ (pc = "aggregate" /\ raised # NoException)
       => /\ final_results.error_message = raised.text
          /\ final_results.is_authentic = "Error"
    /\ CleanedUp
       => /\ shared_data.stop_audio_thread
          /\ audio_processor # NoneObject => audio_processor.stopped
          /\ video_processor # NoneObject => video_processor.released
    /\ (pc = "sys.exit" /\ raised # NoException)
       => /\ output_json = final_results
          /\ raised.text # "" => output_json.error_message = raised.text
          /\ output_json.is_authentic \in {"Yes", "No"}
    /\ (total_audio_data = NoneObject /\ raised = NoException)
       => /\ final_results.error_message \in {None, NoScoresMessage}
          /\ audio_thread.at \in {"not started", "while", "TypeError", "returned"}
          /\ audio_processor.total_audio_frames_collected = 0

\* an exception of the read of a frame, after a frame was scored
C9_Witness ==
    /\ pc = "exited"
    /\ raised # NoException
    /\ raised.where = "cap.read"
    /\ raised.text = "error"
    /\ all_authenticity_scores # << >>
    /\ output_json = final_results
    /\ output_json.error_message = "error"
    /\ video_processor.released
    /\ exit_code = 1

\* a frame was delivered by process_frame and is not scored yet
FrameDelivered ==
    pc \in {"current_speech_emotion", "speech_emotion_history", "analyze"}

\* C10: a failure of the facial inference gives the frame the label Error
\* (No Face when nothing was detected), which is appended to the history,
\* and the frame is scored; a failure of the speech inference sets the speech
\* label to Error; no exception is raised and the loop goes on.
C10_ProviderFailures ==
    /\ FrameDelivered
       => /\ video_processor.demographies \in {"ValueError", "Exception"}
                => current_facial_emotion = "Error"
          /\ video_processor.demographies = "ValueError: No facial detections"
                => current_facial_emotion = "No Face"
          /\ facial_emotion_history # << >>
          /\ facial_emotion_history[Len(facial_emotion_history)] = current_facial_emotion
          /\ raised = NoException
    /\ (pc = "process_frame" /\ frame_count > 0)
       => /\ last_call.called
          /\ last_call.facial_emotion = video_processor.last_facial_emotion
          /\ last_call.facial_emotion_history = video_processor.facial_emotion_history
          /\ Len(all_authenticity_scores) = frame_count
          /\ raised = NoException
    /\ (audio_processor # NoneObject /\ audio_processor.ser_results = "Exception")
       => /\ audio_processor.last_speech_emotion = "Error"
          /\ audio_thread.at = "speech_hist"
                => shared_data.current_speech_emotion = "Error"

\* both inferences have failed, the frame of the failure is scored and the
\* loop is at the next frame
C10_Witness ==
    /\ pc = "process_frame"
    /\ video_processor.frames > 0
    /\ video_processor.demographies = "Exception"
    /\ last_call.called
    /\ last_call.facial_emotion = "Error"
    /\ last_call.speech_emotion = "Error"
    /\ Len(all_authenticity_scores) = frame_count
    /\ frame_count >= 1

\* the last k entries of s, all of s when it has fewer
LastOf(s, k) == SubSeq(s, IF Len(s) > k THEN Len(s) - k + 1 ELSE 1, Len(s))

\* the length of a history after n appends
HistoryFilled ==
    /\ video_processor # NoneObject
       => /\ Len(video_processor.facial_emotion_history)
                = (IF frame_count < HistoryLength THEN frame_count ELSE HistoryLength)
          /\ Len(video_processor.facial_emotion_history) <= video_processor.history_length
    /\ audio_processor # NoneObject
       => Len(audio_processor.speech_emotion_history) <= audio_processor.history_length

\* one step of the session: a call of process_frame that read a frame and a
\* call of process_audio append the label they return, and nothing else
\* touches a history
HistoryAppended ==
    /\ (video_processor # NoneObject /\ video_processor' # NoneObject)
       => IF video_processor'.frames < video_processor.frames
          THEN /\ video_processor'.facial_emotion_history
                     = LastOf(Append(video_processor.facial_emotion_history,
                                     current_facial_emotion'),
                              video_processor.history_length)
               /\ facial_emotion_history' = video_processor'.facial_emotion_history
          ELSE video_processor'.facial_emotion_history
                  = video_processor.facial_emotion_history
    /\ (audio_processor # NoneObject /\ audio_processor' # NoneObject)
       => IF audio_thread.at = "process_audio" /\ audio_thread'.at # "process_audio"
          THEN /\ audio_processor'.speech_emotion_history
                     = LastOf(Append(audio_processor.speech_emotion_history,
                                     audio_thread'.speech_emo),
                              audio_processor.history_length)
               /\ audio_thread'.speech_hist = audio_processor'.speech_emotion_history
          ELSE audio_processor'.speech_emotion_history
                  = audio_processor.speech_emotion_history

TopLabels == SerResults \ {"[]", "Exception"}

\* C13: the labels of the speech path are the top label of the inference
\* result, No Speech Input, Error and Initializing..., and no other: in what
\* process_audio returns, in shared_data and in what analyze is called with;
\* Error is the label when the inference has raised.
C13_SpeechLabels ==
    LET Labels == TopLabels \cup {"No Speech Input", "Error", "Initializing..."}
    IN  /\ audio_processor # NoneObject
           => /\ audio_processor.last_speech_emotion \in Labels
              /\ \A i \in 1..Len(audio_processor.speech_emotion_history) :
                    audio_processor.speech_emotion_history[i] \in Labels
              /\ audio_processor.ser_results = "Exception"
                    => audio_processor.last_speech_emotion = "Error"
        /\ shared_data.current_speech_emotion \in Labels
        /\ last_call.called => last_call.speech_emotion \in Labels

\* main() is in its try block, before the cleanup
InTryBlock ==
    pc \in {"VideoProcessor", "AudioProcessor", "get_audio_from_video", "Thread.start",
            "process_frame", "current_speech_emotion", "speech_emotion_history",
            "analyze", "except"}

\* the audio thread has left its loop: by its return or by an exception
ThreadExited == audio_thread.at \in {"returned", "TypeError"}

\* C14: the frame loop ends when the source has no more frames, whatever the
\* audio thread does and whatever the stop flag is; while main() is in its
\* try block the flag is set only by the audio thread, on its own return;
\* main() sets it after the frame loop, and once it is set a started audio
\* thread leaves its loop, unless the process exits first (join waits at most
\* 5 seconds and the thread is a daemon).
C14_LoopsTerminate ==
    /\ [](InTryBlock /\ shared_data.stop_audio_thread => audio_thread.at = "returned")
    /\ [](~InTryBlock /\ pc # "os.path.exists" /\ pc # "finally" /\ path_exists
            => shared_data.stop_audio_thread)
    /\ (pc = "process_frame" /\ video_processor.frames = 0) ~> (pc = "finally")
    /\ (shared_data.stop_audio_thread /\ audio_thread.at # "not started")
          ~> (ThreadExited \/ pc = "exited")

\* the video is at its end, the audio thread was still looping over audio
\* it cannot process when main() set the flag, and it has returned
C14_Witness ==
    /\ pc = "aggregate"
    /\ raised = NoException
    /\ frame_count = MaxFrames
    /\ video_processor.frames = 0
    /\ shared_data.stop_audio_thread
    /\ audio_thread.at = "returned"
    /\ audio_processor.current_audio_chunk > 0

AllFed ==
    /\ audio_thread.at # "not started"
    /\ total_audio_data # NoneObject
    /\ audio_thread.current_audio_index >= total_audio_data.len

C22_ErrorResult ==
    (raised # NoException /\ output_json # NoneObject)
        => /\ output_json.is_authentic = "Error"
           /\ output_json.risk_score = Lit_1_0

\* the audio extraction has returned None or an array without samples
NoAudio ==
    \/ total_audio_data = NoneObject
    \/ "len" \in DOMAIN total_audio_data /\ total_audio_data.len = 0

\* C23: without audio the shared fields stay as they are initialized, every
\* frame that process_frame delivers is scored, analyze is called with the
\* speech label Initializing... and an empty speech history, none of the
\* four penalties that depend on speech is applied, and the score is 0.1
\* when the face is degenerate and 1.0 otherwise.
C23_FacialOnly ==
    NoAudio =>
        /\ shared_data.current_speech_emotion = "Initializing..."
        /\ shared_data.speech_emotion_history = << >>
        /\ audio_processor.speech_emotion_history = << >>
        /\ (pc = "process_frame" /\ raised = NoException)
              => Len(all_authenticity_scores) = frame_count
        /\ last_call.called
              => /\ last_call.speech_emotion = "Initializing..."
                 /\ last_call.speech_emotion_history = << >>
                 /\ \A i \in 2..5 : ~last_call.conditions[i]
                 /\ last_call.authenticity_score =
                        IF last_call.conditions[1] THEN Lit_0_1 ELSE Lit_1_0
                 /\ all_authenticity_scores[Len(all_authenticity_scores)]
                        = last_call.authenticity_score

\* an array without samples: the thread has stopped itself at once, both
\* frames are scored, the second with a face that is not detected
C23_Witness ==
    /\ "len" \in DOMAIN total_audio_data
    /\ total_audio_data.len = 0
    /\ audio_thread.at = "returned"
    /\ pc = "process_frame"
    /\ frame_count = MaxFrames
    /\ Len(all_authenticity_scores) = MaxFrames
    /\ last_call.called
    /\ last_call.facial_emotion = "No Face"
    /\ last_call.authenticity_score = Lit_0_1

\* C25: the speech label and the speech history of a call of analyze are
\* those of one call of process_audio: a history that is not empty ends in
\* the label.
C25_SameResult ==
    (last_call.called /\ last_call.speech_emotion_history # << >>)
        => last_call.speech_emotion_history[Len(last_call.speech_emotion_history)]
              = last_call.speech_emotion

\* the frames are scored one by one
ScoredInOrder ==
    /\ FrameDelivered
          => /\ Len(all_authenticity_scores) = frame_count - 1
             /\ facial_emotion_history # << >>
             /\ facial_emotion_history[Len(facial_emotion_history)]
                   = current_facial_emotion
             /\ current_facial_emotion = video_processor.last_facial_emotion
    /\ ~FrameDelivered => Len(all_authenticity_scores) = frame_count
    /\ last_call.called
          => /\ last_call.facial_emotion_history # << >>
             /\ last_call.facial_emotion_history[Len(last_call.facial_emotion_history)]
                   = last_call.facial_emotion
             /\ all_authenticity_scores[Len(all_authenticity_scores)]
                   = last_call.authenticity_score
    /\ Aggregated
          => final_results.total_frames_processed = Len(all_authenticity_scores)
    /\ output_json # NoneObject
          => output_json.total_frames_processed = Len(all_authenticity_scores)

\* the list of scores changes only by the append of the score of the frame
\* that was delivered last
ScoreAppended ==
    all_authenticity_scores' # all_authenticity_scores
        => /\ pc = "analyze"
           /\ all_authenticity_scores'
                 = Append(all_authenticity_scores, last_call'.authenticity_score)
           /\ last_call'.facial_emotion = current_facial_emotion
           /\ last_call'.facial_emotion_history = facial_emotion_history
           /\ Len(all_authenticity_scores') = frame_count

\* C26: a frame that process_frame delivers is counted, passed to analyze
\* once with a facial history that ends in its label, and its score is
\* appended before the next frame is read; the number of scores is the
\* number of frames counted at every point outside of these steps, so the
\* total_frames_processed of the result is the number of scores averaged,
\* and 0 without scores.
C26_OneScorePerFrame == [](ScoredInOrder) /\ [][ScoreAppended]_vars

\* the read of the second frame has raised after the first frame was
\* scored: the result that is written counts one frame
C26_Witness ==
    /\ pc = "sys.exit"
    /\ raised # NoException
    /\ Len(all_authenticity_scores) = 1
    /\ output_json # NoneObject
    /\ output_json.total_frames_processed = 1
    /\ video_processor.frames = MaxFrames - 1

====
